---- MODULE Spec2Model ----
(***************************************************************************)
(* Model of the interactive query orchestrator of ip-tool (package tui,    *)
(* type App) together with the lookup functions it calls                   *)
(* (network.ResolveIPv4 / ResolveIPv6 / FetchGeoInfo).                     *)
(*                                                                         *)
(* Bubble Tea runs App.Update on one goroutine, one message at a time.     *)
(* Every tea.Cmd returned by Init/Update runs concurrently and delivers    *)
(* its message later, in any order.  The model keeps the set of commands   *)
(* that were issued and have not delivered yet (inflight, a bag); one      *)
(* action delivers one of them and runs the whole handler of its message.  *)
(* spinner.TickMsg only animates the spinner, which is not part of the     *)
(* state modelled here.                                                    *)
(*                                                                         *)
(* The functions of package ip (Classify, ExtractFromURL, IsValidTarget)   *)
(* and the start of the command (cmd.run, getTarget, cli.ReadStdin) are    *)
(* studied one call at a time, each under a specification of its own       *)
(* (SpecClassify, SpecExtract, SpecValidate, SpecRun).                     *)
(***************************************************************************)
EXTENDS Integers, FiniteSets, Sequences, Bags, TLC

VARIABLES
    pc,             \* "new" (after NewApp), "running" (after Init), "quit"
    target,         \* App.target
    ipv4,           \* App.ipv4
    ipv6,           \* App.ipv6
    geoInfo,        \* App.geoInfo (NilGeo for a nil pointer)
    message,        \* App.message
    loading,        \* App.loading
    showDetail,     \* App.showDetail
    fetchingDetail, \* App.fetchingDetail
    inflight,       \* bag of commands whose message has not been delivered;
                    \* a command is stale once a refresh followed its issue
    issued,         \* history: bag of the lookups issued in this cycle
    last,           \* history: the event handled by the latest step
    input,          \* the argument of the function under study (see Texts)
    output          \* <<>> before the call, <<its result>> after it

vars == <<pc, target, ipv4, ipv6, geoInfo, message, loading, showDetail,
          fetchingDetail, inflight, issued, last, input, output>>

\* the variables of an interactive session
sessionVars == <<pc, target, ipv4, ipv6, geoInfo, message, loading, showDetail,
                 fetchingDetail, inflight, issued, last>>

\* the variables of a single function call
callVars == <<input, output>>

appVars == <<target, ipv4, ipv6, geoInfo, message, loading, showDetail,
             fetchingDetail>>

----------------------------------------------------------------------------
(* Bounds of the exploration *)

\* commands outstanding at the same time: the keys "r", "4" and "6" are
\* explored while the commands they issue fit
MaxOutstanding == 4

----------------------------------------------------------------------------
(* Values *)

NotDetected == "Not Detected"
NotApplicable == "Not Applicable"

LiteralV4 == "8.8.8.8"
LiteralV6 == "2001:4860:4860::8888"
Hostname == "example.com"
Targets == {"", Hostname, LiteralV4, LiteralV6}

V4Addrs == {"93.184.216.34"}
V6Addrs == {"2606:2800:220:1::1"}

NilGeo == [nil |-> TRUE]

\* net.ParseIP followed by To4(): 0 = not an IP (nil), 4, 6
ParseIP(t) ==
    IF t = LiteralV4 \/ t \in V4Addrs THEN 4
    ELSE IF t = LiteralV6 \/ t \in V6Addrs THEN 6
    ELSE 0

----------------------------------------------------------------------------
(* Lookup gateway: each function is the set of results a call can return *)

\* An HTTP body: text surrounded by optional whitespace
Bodies(addrs) == [text : addrs \cup {""}, nl : BOOLEAN]

\* strings.TrimSpace
TrimSpace(body) == body.text

\* fetchIP: (value, error)
fetchIP(addrs) ==
    {[val |-> "", err |-> TRUE]}
        \cup {[val |-> TrimSpace(b), err |-> FALSE] : b \in Bodies(addrs)}

FetchPublicIPv4 == fetchIP(V4Addrs)
FetchPublicIPv6 == fetchIP(V6Addrs)

\* lookupIP: (value, error); on success the first address, ips[0].String()
lookupIP(addrs) ==
    {[val |-> "", err |-> TRUE]} \cup {[val |-> a, err |-> FALSE] : a \in addrs}

LookupIPv4 == lookupIP(V4Addrs)
LookupIPv6 == lookupIP(V6Addrs)

ResolveIPv4(t) ==
    IF t = ""
    THEN {IF r.err THEN NotDetected ELSE r.val : r \in FetchPublicIPv4}
    ELSE IF ParseIP(t) # 0
         THEN {IF ParseIP(t) = 4 THEN t ELSE NotApplicable}
         ELSE {IF r.err THEN NotDetected ELSE r.val : r \in LookupIPv4}

ResolveIPv6(t) ==
    IF t = ""
    THEN {IF r.err THEN NotDetected ELSE r.val : r \in FetchPublicIPv6}
    ELSE IF ParseIP(t) # 0
         THEN {IF ParseIP(t) # 4 THEN t ELSE NotApplicable}
         ELSE {IF r.err THEN NotDetected ELSE r.val : r \in LookupIPv6}

Geo(status, msg, ip) ==
    [nil |-> FALSE, Status |-> status, Message |-> msg, queried |-> ip]

\* FetchGeoInfo: (info, error text); err = "" stands for a nil error.  The
\* timeout stands for every error return: they differ in the text only.  A
\* response whose status is neither "success" nor "fail" is returned as is.
FetchGeoInfo(ip) ==
    { [info |-> NilGeo, err |-> "timeout (>5s)"],
      [info |-> Geo("success", "", ip), err |-> ""],
      [info |-> Geo("", "", ip), err |-> ""] }

\* the message App.fetchGeo's command returns
fetchGeo(ip) ==
    { IF r.err # ""
      THEN [kind |-> "geoErrMsg", val |-> r.err, info |-> NilGeo]
      ELSE [kind |-> "geoMsg", val |-> "", info |-> r.info]
      : r \in FetchGeoInfo(ip) }

----------------------------------------------------------------------------
(* Commands *)

\* func() tea.Msg { return ipv4Msg(network.ResolveIPv4(a.target)) }
CmdV4 == [kind |-> "ipv4", arg |-> ""]
\* func() tea.Msg { return ipv6Msg(network.ResolveIPv6(a.target)) }
CmdV6 == [kind |-> "ipv6", arg |-> ""]
\* a.fetchGeo(ip)
CmdGeo(ip) == [kind |-> "geo", arg |-> ip]
\* tea.Tick(d, func(time.Time) tea.Msg { return clearMsg{} })
CmdClear(d) == [kind |-> "clear", arg |-> d]

\* the commands a handler returns (a sequence of distinct commands), as
\* commands of the current cycle
NewCmds(cmds) ==
    SetToBag({ [kind |-> cmds[i].kind, arg |-> cmds[i].arg, stale |-> FALSE] :
               i \in 1..Len(cmds) })

\* outstanding commands after a refresh: all of them are of an earlier cycle
MarkStale(B) ==
    LET S == {[c EXCEPT !.stale = TRUE] : c \in BagToSet(B)}
    IN  [c \in S |-> CopiesIn(c, B) + CopiesIn([c EXCEPT !.stale = FALSE], B)]

\* an event handled by App.Update: its kind, its payload (for a key "4"/"6"
\* the slot value), whether its command was issued before the latest refresh,
\* and the text it handed to clipboard.WriteAll ("" for none)
Event(kind, val, stale, wrote) ==
    [kind |-> kind, val |-> val, stale |-> stale, wrote |-> wrote]

----------------------------------------------------------------------------
(* App helpers *)

\* updateLoading without its detail branch
updateLoading_IgnoresDetail(v4, v6, detail, geo) == ~(v4 # "" /\ v6 # "")

\* App.updateLoading
updateLoading(v4, v6, detail, geo) ==
    LET ipReady == v4 # "" /\ v6 # ""
    IN  IF ~detail THEN ~ipReady ELSE ~(ipReady /\ geo # NilGeo)

\* the slot test of getValidIP
usable(s) == s # "" /\ s # NotDetected /\ s # NotApplicable

\* the slot test as ipQueryApp.Update has it: "Not Applicable" passes
canCopy_AllowsNotApplicable(s) == s # "" /\ s # NotDetected

\* the slot test of the keys "4" and "6"
canCopy(s) == s # "" /\ s # NotDetected /\ s # NotApplicable

\* App.getValidIP
getValidIP(v4, v6) ==
    IF usable(v4) THEN v4 ELSE IF usable(v6) THEN v6 ELSE ""

\* literalSlots with the To4 test inverted
literalSlots_Swapped(t) ==
    IF ParseIP(t) = 4
    THEN [ipv4 |-> NotApplicable, ipv6 |-> t]
    ELSE [ipv4 |-> t, ipv6 |-> NotApplicable]

\* the slots Init and refresh give an IP-literal target
literalSlots(t) ==
    IF ParseIP(t) = 4
    THEN [ipv4 |-> t, ipv6 |-> NotApplicable]
    ELSE [ipv4 |-> NotApplicable, ipv6 |-> t]

----------------------------------------------------------------------------
(* NewApp *)

Init ==
    /\ pc = "new"
    /\ target \in Targets
    /\ showDetail \in BOOLEAN
    /\ ipv4 = ""
    /\ ipv6 = ""
    /\ geoInfo = NilGeo
    /\ message = ""
    /\ loading = TRUE
    /\ fetchingDetail = FALSE
    /\ inflight = EmptyBag
    /\ issued = EmptyBag
    /\ last = Event("NewApp", "", FALSE, "")
    /\ input = ""
    /\ output = <<>>

\* the address lookups and geolocation fetches among the commands
Lookups(cmds) == SelectSeq(cmds, LAMBDA c : c.kind # "clear")

\* a handler's effect on the commands: the delivered one is gone, the
\* returned ones are issued
Emit(delivered, cmds) ==
    /\ inflight' = (inflight (-) delivered) (+) NewCmds(cmds)
    /\ issued' = issued (+) NewCmds(Lookups(cmds))

\* the commands Init and refresh return for the target (without the clear tick)
startCmds(t, detail) ==
    IF ParseIP(t) # 0
    THEN IF detail THEN <<CmdGeo(t)>> ELSE <<>>
    ELSE <<CmdV4, CmdV6>>

\* App.Init
AppInit ==
    /\ pc = "new"
    /\ pc' = "running"
    /\ last' = Event("Init", "", FALSE, "")
    /\ IF ParseIP(target) # 0
       THEN /\ ipv4' = literalSlots(target).ipv4
            /\ ipv6' = literalSlots(target).ipv6
            /\ loading' = updateLoading(ipv4', ipv6', showDetail, geoInfo)
            /\ Emit(EmptyBag, startCmds(target, showDetail))
       ELSE /\ Emit(EmptyBag, startCmds(target, showDetail))
            /\ UNCHANGED <<ipv4, ipv6, loading>>
    /\ UNCHANGED <<target, geoInfo, message, showDetail, fetchingDetail>>
    /\ UNCHANGED callVars

\* GeoInfo.IsSuccess, GeoInfo.IsFailed
IsSuccess(g) == ~g.nil /\ g.Status = "success"
IsFailed(g) == ~g.nil /\ g.Status = "fail"

\* App.View, the detail section: which block is rendered
viewDetail(detail, ld, g) ==
    IF ~detail THEN "none"
    ELSE IF IsSuccess(g) THEN "geolocation"
    ELSE IF ld /\ g.nil THEN "fetching"
    ELSE IF IsFailed(g) THEN "failed, press r to retry"
    ELSE "blank"

\* a refresh that leaves fetchingDetail as it finds it
KeyR_KeepsFetchFlag ==
    /\ pc = "running"
    /\ BagCardinality(inflight) + 1 + Len(startCmds(target, showDetail))
           <= MaxOutstanding
    /\ last' = Event("r", "", FALSE, "")
    /\ geoInfo' = NilGeo
    /\ message' = "Refreshing..."
    /\ IF ParseIP(target) # 0
       THEN /\ ipv4' = literalSlots(target).ipv4
            /\ ipv6' = literalSlots(target).ipv6
            /\ loading' = IF showDetail THEN TRUE
                          ELSE updateLoading(ipv4', ipv6', showDetail, geoInfo')
       ELSE /\ ipv4' = ""
            /\ ipv6' = ""
            /\ loading' = TRUE
    /\ inflight' = MarkStale(inflight)
                    (+) NewCmds(<<CmdClear("500ms")>>
                                    \o startCmds(target, showDetail))
    /\ issued' = NewCmds(startCmds(target, showDetail))
    /\ UNCHANGED <<pc, target, showDetail, fetchingDetail>>
    /\ UNCHANGED callVars

\* App.refresh (key "r")
KeyR ==
    /\ pc = "running"
    /\ BagCardinality(inflight) + 1 + Len(startCmds(target, showDetail))
           <= MaxOutstanding
    /\ last' = Event("r", "", FALSE, "")
    /\ geoInfo' = NilGeo
    /\ fetchingDetail' = FALSE
    /\ message' = "Refreshing..."
    /\ IF ParseIP(target) # 0
       THEN /\ ipv4' = literalSlots(target).ipv4
            /\ ipv6' = literalSlots(target).ipv6
            /\ loading' = IF showDetail THEN TRUE
                          ELSE updateLoading(ipv4', ipv6', showDetail, geoInfo')
       ELSE /\ ipv4' = ""
            /\ ipv6' = ""
            /\ loading' = TRUE
    /\ inflight' = MarkStale(inflight)
                    (+) NewCmds(<<CmdClear("500ms")>>
                                    \o startCmds(target, showDetail))
    /\ issued' = NewCmds(startCmds(target, showDetail))
    /\ UNCHANGED <<pc, target, showDetail>>
    /\ UNCHANGED callVars

\* the commands the key "d" returns
keyDCmds(v4, v6) ==
    IF getValidIP(v4, v6) # "" THEN <<CmdGeo(getValidIP(v4, v6))>> ELSE <<>>

\* key "d"
KeyD ==
    /\ pc = "running"
    /\ last' = Event("d", "", FALSE, "")
    /\ IF ~showDetail
       THEN /\ showDetail' = TRUE
            /\ IF getValidIP(ipv4, ipv6) # ""
               THEN /\ loading' = TRUE
                    /\ UNCHANGED geoInfo
               ELSE /\ geoInfo' = Geo("fail", "No valid IP", "")
                    /\ UNCHANGED loading
            /\ Emit(EmptyBag, keyDCmds(ipv4, ipv6))
       ELSE UNCHANGED <<showDetail, loading, geoInfo, inflight, issued>>
    /\ UNCHANGED <<pc, target, ipv4, ipv6, message, fetchingDetail>>
    /\ UNCHANGED callVars

\* keys "4" and "6": slot is the value of the family's slot
KeyCopy(key, slot, text) ==
    /\ pc = "running"
    /\ IF canCopy(slot)
       THEN /\ BagCardinality(inflight) + 1 <= MaxOutstanding
            /\ last' = Event(key, slot, FALSE, slot)
            /\ message' = text
            /\ Emit(EmptyBag, <<CmdClear("2s")>>)
       ELSE /\ last' = Event(key, slot, FALSE, "")
            /\ UNCHANGED <<message, inflight, issued>>
    /\ UNCHANGED <<pc, target, ipv4, ipv6, geoInfo, loading, showDetail,
                   fetchingDetail>>
    /\ UNCHANGED callVars

Key4 == KeyCopy("4", ipv4, "Copied IPv4!")

Key6 == KeyCopy("6", ipv6, "Copied IPv6!")

\* a quit key that is only honoured once nothing is loading
KeyQ_OnlyWhenIdle ==
    /\ pc = "running"
    /\ ~loading
    /\ pc' = "quit"
    /\ last' = Event("q", "", FALSE, "")
    /\ UNCHANGED <<appVars, inflight, issued>>
    /\ UNCHANGED callVars

\* keys "q" and "ctrl+c": tea.Quit ends the program
KeyQ ==
    /\ pc = "running"
    /\ pc' = "quit"
    /\ last' = Event("q", "", FALSE, "")
    /\ UNCHANGED <<appVars, inflight, issued>>
    /\ UNCHANGED callVars

\* addrMsgCmds retrying the address lookups after a failure
addrMsgCmds_RetriesFailure(v) ==
    IF v = NotDetected
    THEN <<CmdV4, CmdV6>>
    ELSE IF showDetail /\ ~fetchingDetail /\ geoInfo = NilGeo
         THEN <<CmdGeo(v)>>
         ELSE <<>>

\* addrMsgCmds fetching geolocation whether or not detail mode is on
addrMsgCmds_IgnoresDetailMode(v) ==
    IF ~fetchingDetail /\ geoInfo = NilGeo /\ v # NotDetected
    THEN <<CmdGeo(v)>>
    ELSE <<>>

\* the commands the handler of ipv4Msg / ipv6Msg returns for the value v
addrMsgCmds(v) ==
    IF showDetail /\ ~fetchingDetail /\ geoInfo = NilGeo /\ v # NotDetected
    THEN <<CmdGeo(v)>>
    ELSE <<>>

\* case ipv4Msg
OnIpv4Msg(c) ==
    \E v \in ResolveIPv4(target) :
        /\ last' = Event("ipv4Msg", v, c.stale, "")
        /\ ipv4' = v
        /\ loading' = updateLoading(ipv4', ipv6, showDetail, geoInfo)
        /\ fetchingDetail' = (fetchingDetail \/ addrMsgCmds(v) # <<>>)
        /\ Emit(SetToBag({c}), addrMsgCmds(v))
        /\ UNCHANGED <<ipv6, geoInfo, message>>

\* case ipv6Msg
OnIpv6Msg(c) ==
    \E v \in ResolveIPv6(target) :
        /\ last' = Event("ipv6Msg", v, c.stale, "")
        /\ ipv6' = v
        /\ loading' = updateLoading(ipv4, ipv6', showDetail, geoInfo)
        /\ fetchingDetail' = (fetchingDetail \/ addrMsgCmds(v) # <<>>)
        /\ Emit(SetToBag({c}), addrMsgCmds(v))
        /\ UNCHANGED <<ipv4, geoInfo, message>>

\* a geo handler that forgets to clear fetchingDetail
OnGeoMsg_KeepsFetchFlag(c) ==
    \E m \in fetchGeo(c.arg) :
        /\ last' = Event(m.kind, c.arg, c.stale, "")
        /\ geoInfo' = IF m.kind = "geoMsg" THEN m.info
                      ELSE Geo("fail", m.val, c.arg)
        /\ loading' = updateLoading(ipv4, ipv6, showDetail, geoInfo')
        /\ Emit(SetToBag({c}), <<>>)
        /\ UNCHANGED <<ipv4, ipv6, message, fetchingDetail>>

\* case geoMsg and case geoErrMsg
OnGeoMsg(c) ==
    \E m \in fetchGeo(c.arg) :
        /\ last' = Event(m.kind, c.arg, c.stale, "")
        /\ geoInfo' = IF m.kind = "geoMsg" THEN m.info
                      ELSE Geo("fail", m.val, c.arg)
        /\ fetchingDetail' = FALSE
        /\ loading' = updateLoading(ipv4, ipv6, showDetail, geoInfo')
        /\ Emit(SetToBag({c}), <<>>)
        /\ UNCHANGED <<ipv4, ipv6, message>>

\* a clearMsg handler that also ends the loading state
OnClearMsg_StopsLoading(c) ==
    /\ last' = Event("clearMsg", c.arg, c.stale, "")
    /\ message' = ""
    /\ loading' = FALSE
    /\ Emit(SetToBag({c}), <<>>)
    /\ UNCHANGED <<ipv4, ipv6, geoInfo, fetchingDetail>>

\* case clearMsg
OnClearMsg(c) ==
    /\ last' = Event("clearMsg", c.arg, c.stale, "")
    /\ message' = ""
    /\ Emit(SetToBag({c}), <<>>)
    /\ UNCHANGED <<ipv4, ipv6, geoInfo, loading, fetchingDetail>>

\* a command finishes and its message is handled by App.Update
Deliver ==
    /\ pc = "running"
    /\ \E c \in BagToSet(inflight) :
        CASE c.kind = "ipv4" -> OnIpv4Msg(c)
          [] c.kind = "ipv6" -> OnIpv6Msg(c)
          [] c.kind = "geo" -> OnGeoMsg(c)
          [] c.kind = "clear" -> OnClearMsg(c)
    /\ UNCHANGED <<pc, target, showDetail>>
    /\ UNCHANGED callVars

Next ==
    \/ AppInit
    \/ KeyR
    \/ KeyD
    \/ Key4
    \/ Key6
    \/ KeyQ
    \/ Deliver

Spec == Init /\ [][Next]_vars

\* the session in which the user presses no key
NextNoKeys ==
    \/ AppInit
    \/ Deliver

SpecNoKeys == Init /\ [][NextNoKeys]_vars

----------------------------------------------------------------------------
(* Vocabulary of the properties *)

\* number of commands of kind k in the bag B that satisfy the stale flag st
Count(B, k, st) ==
    LET S == {c \in BagToSet(B) : c.kind = k /\ c.stale = st}
    IN  IF S = {} THEN 0 ELSE BagCardinality([c \in S |-> CopiesIn(c, B)])

\* geolocation fetches issued in the current cycle
GeoFetches == Count(issued, "geo", FALSE)

\* the addresses on which a geolocation fetch was issued in the current cycle
GeoFetchArgs == {c.arg : c \in {d \in BagToSet(issued) : d.kind = "geo"}}

\* the target is a hostname or empty, not an IP literal
NonLiteral == target \in {"", Hostname}

Pending(s) == s = ""
Resolved(s) == s \notin {"", "Not Detected", "Not Applicable"}

Completions == {"ipv4Msg", "ipv6Msg", "geoMsg", "geoErrMsg"}

\* commands other than expiry ticks that have not delivered
Outstanding(st) ==
    Count(inflight, "ipv4", st) + Count(inflight, "ipv6", st)
        + Count(inflight, "geo", st)

----------------------------------------------------------------------------
(* C1 *)

\* C1: with a hostname or empty target, a completion event (ipv4Msg, ipv6Msg,
\* geoMsg, geoErrMsg) whose command was issued before the latest refresh is
\* discarded: handling it changes neither the slots, nor the geo state, nor
\* loading, so after a refresh the slots stay Pending and loading stays true.
C1_StaleEventDiscarded ==
    [][ (NonLiteral /\ last'.kind \in Completions /\ last'.stale)
            => UNCHANGED <<ipv4, ipv6, geoInfo, loading>> ]_vars

----------------------------------------------------------------------------
(* C2 *)

\* C2: within one cycle (from Init or a refresh to the next refresh) at most
\* one geolocation fetch is issued.
C2_OneGeoFetchPerCycle == GeoFetches <= 1

----------------------------------------------------------------------------
(* C3 *)

\* C3: hostname or empty target, detail mode on from the start, no key
\* pressed: as soon as a family has completed with a usable value, exactly one
\* geolocation fetch has been issued, on the value of the family whose usable
\* completion was handled first, and the later completion of the other family
\* issues no second fetch.
C3_FirstUsableClaimsFetch ==
    (NonLiteral /\ showDetail) =>
        /\ GeoFetches <= 1
        /\ (Resolved(ipv4) /\ ~Resolved(ipv6)) => GeoFetchArgs = {ipv4}
        /\ (Resolved(ipv6) /\ ~Resolved(ipv4)) => GeoFetchArgs = {ipv6}
        /\ (Resolved(ipv4) /\ Resolved(ipv6)) =>
              /\ GeoFetches = 1
              /\ last.kind = "ipv6Msg" => GeoFetchArgs = {ipv4}
              /\ last.kind = "ipv4Msg" => GeoFetchArgs = {ipv6}

----------------------------------------------------------------------------
(* C4 *)

\* C4: in every reachable state loading = NOT(both slots non-empty AND
\* (detail mode off OR a geo result is present)), also after the handlers
\* that assign loading directly (key "d", refresh).
C4_LoadingIsDerived ==
    loading = ~( ~Pending(ipv4) /\ ~Pending(ipv6)
                 /\ (~showDetail \/ geoInfo # NilGeo) )

\* the key "d" has just assigned loading directly, with both slots settled
C4_Witness ==
    /\ last.kind = "d"
    /\ ~Pending(ipv4) /\ ~Pending(ipv6)
    /\ geoInfo = NilGeo
    /\ loading

----------------------------------------------------------------------------
(* C5 *)

\* C5: with a hostname or empty target loading is true right after Init, and
\* whenever loading is false no address lookup and no geolocation fetch of
\* the current cycle is still outstanding.
C5_NotLoadingMeansNothingOutstanding ==
    NonLiteral =>
        /\ last.kind = "Init" => loading
        /\ ~loading => Outstanding(FALSE) = 0

----------------------------------------------------------------------------
(* C6 *)

\* C6: once every issued lookup has delivered and both address lookups have
\* concluded (Resolved or Not Detected), loading is false: with no further
\* key nothing else can clear it, so this is what "loading eventually becomes
\* false" requires of the state in which the session comes to rest.
C6_LoadingClearsAtRest ==
    ( /\ pc = "running"
      /\ Outstanding(FALSE) + Outstanding(TRUE) = 0
      /\ ~Pending(ipv4) /\ ~Pending(ipv6) )
        => ~loading

----------------------------------------------------------------------------
(* C7 *)

\* C7: with an IP-literal target, after Init and ever after (refreshes
\* included) the slot of the literal's family holds the target and the other
\* slot holds "Not Applicable", no address lookup is ever issued, and with
\* detail mode on Init issues the geolocation fetch on the literal at once.
C7_LiteralTarget ==
    (pc # "new" /\ target \in {LiteralV4, LiteralV6}) =>
        /\ target = LiteralV4 => ipv4 = target /\ ipv6 = "Not Applicable"
        /\ target = LiteralV6 => ipv6 = target /\ ipv4 = "Not Applicable"
        /\ \A c \in BagToSet(inflight) \cup BagToSet(issued) :
              c.kind \notin {"ipv4", "ipv6"}
        /\ (last.kind = "Init" /\ showDetail) =>
              inflight = SetToBag({[kind |-> "geo", arg |-> target,
                                    stale |-> FALSE]})

\* an IPv6 literal, after a refresh
C7_Witness ==
    /\ target = LiteralV6
    /\ last.kind = "r"
    /\ ipv6 = target
    /\ ipv4 = "Not Applicable"

----------------------------------------------------------------------------
(* C8 *)

\* C8: a slot that is Resolved or Unavailable (non-empty) is returned to
\* Pending (empty) by no event other than a refresh, whatever value a lookup
\* delivers; a refresh of a hostname or empty target resets both slots in
\* one step.
C8_SlotNeverRevertsToPending ==
    [][ /\ last'.kind # "r" =>
              /\ ~Pending(ipv4) => ~Pending(ipv4')
              /\ ~Pending(ipv6) => ~Pending(ipv6')
        /\ (last'.kind = "r" /\ NonLiteral) =>
              Pending(ipv4') /\ Pending(ipv6') ]_vars

----------------------------------------------------------------------------
(* C9 *)

\* the step adds one expiry tick of 2 s to the outstanding commands
SchedulesExpiry ==
    inflight' = inflight (+) SetToBag({[kind |-> "clear", arg |-> "2s",
                                        stale |-> FALSE]})

\* C9: the key "4" (resp. "6") on a slot that is Pending, "Not Detected" or
\* "Not Applicable" writes nothing to the clipboard and leaves the message
\* alone; on a Resolved slot it writes the slot value, sets the confirmation
\* message and schedules its expiry; handling clearMsg clears the message.
C9_Copy ==
    [][ /\ (last'.kind = "4" /\ ~Resolved(ipv4)) =>
              last'.wrote = "" /\ UNCHANGED <<message, inflight>>
        /\ (last'.kind = "6" /\ ~Resolved(ipv6)) =>
              last'.wrote = "" /\ UNCHANGED <<message, inflight>>
        /\ (last'.kind = "4" /\ Resolved(ipv4)) =>
              last'.wrote = ipv4 /\ message' = "Copied IPv4!" /\ SchedulesExpiry
        /\ (last'.kind = "6" /\ Resolved(ipv6)) =>
              last'.wrote = ipv6 /\ message' = "Copied IPv6!" /\ SchedulesExpiry
        /\ last'.kind = "clearMsg" => message' = "" ]_vars

\* the expiry tick of a copy has been handled
C9_Witness ==
    /\ last.kind = "clearMsg"
    /\ last.val = "2s"
    /\ message = ""

----------------------------------------------------------------------------
(* C10 *)

\* the step delivers one outstanding command of kind k and issues nothing
DeliversOnly(k) ==
    /\ \E c \in BagToSet(inflight) :
          c.kind = k /\ inflight' = inflight (-) SetToBag({c})
    /\ issued' = issued

\* C10: a failed address lookup degrades only its own slot to "Not Detected":
\* handling it leaves the other slot and every other outstanding command
\* alone and issues no new lookup, and a cycle holds at most one IPv4 and one
\* IPv6 lookup.
C10_FailureIsLocal ==
    /\ [](Count(issued, "ipv4", FALSE) <= 1 /\ Count(issued, "ipv6", FALSE) <= 1)
    /\ [][ /\ (last'.kind = "ipv4Msg" /\ last'.val = "Not Detected") =>
                 /\ ipv4' = "Not Detected"
                 /\ ipv6' = ipv6
                 /\ DeliversOnly("ipv4")
           /\ (last'.kind = "ipv6Msg" /\ last'.val = "Not Detected") =>
                 /\ ipv6' = "Not Detected"
                 /\ ipv4' = ipv4
                 /\ DeliversOnly("ipv6") ]_vars

\* the IPv4 lookup has just failed while the IPv6 lookup of the same cycle is
\* still outstanding
C10_Witness ==
    /\ last.kind = "ipv4Msg"
    /\ ~last.stale
    /\ ipv4 = "Not Detected"
    /\ Count(inflight, "ipv6", FALSE) = 1

-----------------------------------------------------------------------------
(* C11 *)
\* the error texts the geolocation fetch of ip can deliver
GeoErrors(ip) == {m.val : m \in {x \in fetchGeo(ip) : x.kind = "geoErrMsg"}}

\* C11: a geolocation failure is never fatal.  Handling geoErrMsg(message)
\* leaves the geo state Failed with that message, clears fetchingDetail,
\* recomputes loading, leaves both slots alone, keeps the session running and
\* renders the failure with the retry hint; the refresh that follows resets
\* the geo state so that the next cycle fetches again.
C11_GeoFailureNotFatal ==
    [][ /\ last'.kind = "geoErrMsg" =>
              /\ IsFailed(geoInfo')
              /\ geoInfo'.Message \in GeoErrors(last'.val)
              /\ fetchingDetail' = FALSE
              /\ loading' = updateLoading(ipv4', ipv6', showDetail', geoInfo')
              /\ ipv4' = ipv4
              /\ ipv6' = ipv6
              /\ pc' = "running"
              /\ viewDetail(showDetail', loading', geoInfo')
                    = "failed, press r to retry"
        /\ (IsFailed(geoInfo) /\ last'.kind = "r") =>
              /\ geoInfo' = NilGeo
              /\ fetchingDetail' = FALSE ]_vars

\* a geolocation failure of the current cycle has just been handled while the
\* fetch was marked as running, and both slots hold their results
C11_Witness ==
    /\ last.kind = "geoErrMsg"
    /\ ~last.stale
    /\ IsFailed(geoInfo)
    /\ geoInfo.Message = "timeout (>5s)"
    /\ ipv4 = "93.184.216.34"
    /\ ipv6 = "Not Detected"
    /\ ~loading

-----------------------------------------------------------------------------
(* C12 *)
\* C12: the key "d" pressed while detail mode is off starts a geolocation
\* fetch at once on the usable slot value (IPv4 before IPv6) when there is
\* one; when there is none it leaves the geo state without result or failure,
\* and the first address completion of the cycle that carries a usable value
\* then starts the fetch.
C12_DetailEnabledMidSession ==
    [][ /\ (last'.kind = "d" /\ ~showDetail) =>
              /\ showDetail'
              /\ IF getValidIP(ipv4, ipv6) # ""
                 THEN inflight' = inflight
                         (+) NewCmds(<<CmdGeo(getValidIP(ipv4, ipv6))>>)
                 ELSE /\ geoInfo' = NilGeo
                      /\ inflight' = inflight
        /\ ( /\ last'.kind \in {"ipv4Msg", "ipv6Msg"}
             /\ ~last'.stale
             /\ usable(last'.val)
             /\ showDetail
             /\ GeoFetches = 0 ) =>
              GeoFetchArgs' = {last'.val} ]_vars

-----------------------------------------------------------------------------
(* C13 *)
\* NewApp(t, detail) followed by App.Init: the fields it leaves and the
\* commands it returns
FreshInit(t, detail) ==
    LET lit == ParseIP(t) # 0
        v4  == IF ~lit THEN "" ELSE IF ParseIP(t) = 4 THEN t ELSE NotApplicable
        v6  == IF ~lit THEN "" ELSE IF ParseIP(t) = 4 THEN NotApplicable ELSE t
    IN  [ ipv4           |-> v4,
          ipv6           |-> v6,
          geoInfo        |-> NilGeo,
          fetchingDetail |-> FALSE,
          loading        |-> IF lit
                             THEN updateLoading(v4, v6, detail, NilGeo)
                             ELSE TRUE,
          cmds           |-> IF lit
                             THEN IF detail THEN <<CmdGeo(t)>> ELSE <<>>
                             ELSE <<CmdV4, CmdV6>> ]

\* the fields and the lookups of the current cycle are those of a fresh
\* session on the same target and detail flag
LikeFreshInit ==
    LET f == FreshInit(target', showDetail')
    IN  /\ ipv4' = f.ipv4
        /\ ipv6' = f.ipv6
        /\ geoInfo' = f.geoInfo
        /\ fetchingDetail' = f.fetchingDetail
        /\ loading' = f.loading
        /\ issued' = NewCmds(f.cmds)
        /\ \A k \in {"ipv4", "ipv6", "geo"} :
              Count(inflight', k, FALSE) = Count(NewCmds(f.cmds), k, FALSE)

\* C13: refresh is re-initialization.  After the key "r" the slots, the geo
\* state, fetchingDetail, loading and the lookups issued equal what App.Init
\* leaves on a fresh session with the same target and the current detail
\* flag; the message is "Refreshing..." and one clear event is scheduled.
C13_RefreshIsReinit ==
    [][ /\ last'.kind = "Init" => LikeFreshInit
        /\ last'.kind = "r" =>
              /\ LikeFreshInit
              /\ target' = target
              /\ showDetail' = showDetail
              /\ message' = "Refreshing..."
              /\ Count(inflight', "clear", FALSE) = 1 ]_vars

\* a refresh has just been handled in detail mode while results of the
\* previous cycle were on screen and one of its commands was outstanding
C13_Witness ==
    /\ last.kind = "r"
    /\ showDetail
    /\ target = Hostname
    /\ Outstanding(TRUE) > 0
    /\ message = "Refreshing..."
    /\ ipv4 = ""

-----------------------------------------------------------------------------
(* C14 *)
\* C14: in every reachable state of a running session, whatever is pending,
\* failed or outstanding and whatever the message, the key "q" (ctrl+c) is
\* accepted and yields the quit command without touching the fields; no other
\* event, a failed lookup included, ends the session.
C14_QuitAlwaysAccepted ==
    /\ [](pc = "running" => ENABLED KeyQ)
    /\ [][ /\ last'.kind = "q" =>
                  /\ pc' = "quit"
                  /\ appVars' = appVars
           /\ (pc = "running" /\ last'.kind # "q") => pc' = "running" ]_vars

\* the session has quit while one lookup had failed, the other one was still
\* outstanding and the screen was loading
C14_Witness ==
    /\ pc = "quit"
    /\ last.kind = "q"
    /\ ipv4 = "Not Detected"
    /\ Count(inflight, "ipv6", FALSE) = 1
    /\ loading

-----------------------------------------------------------------------------
(* Texts.  A Go string is a TLA+ string; Len, SubSeq and \o work on it.     *)

Ch(s, i) == SubSeq(s, i, i)
From(s, i) == SubSeq(s, i, Len(s))

\* unicode.IsSpace on the characters used here
White == {" ", "\t", "\n", "\r"}

RECURSIVE trimLeft(_, _)
trimLeft(s, cut) ==
    IF s # "" /\ Ch(s, 1) \in cut THEN trimLeft(From(s, 2), cut) ELSE s

RECURSIVE trimRight(_, _)
trimRight(s, cut) ==
    IF s # "" /\ Ch(s, Len(s)) \in cut
    THEN trimRight(SubSeq(s, 1, Len(s) - 1), cut)
    ELSE s

\* strings.Trim
trim(s, cut) == trimRight(trimLeft(s, cut), cut)

\* strings.TrimSpace
trimSpace(s) == trim(s, White)

\* sub occurs in s at position i (counted from 1)
occursAt(s, sub, i) ==
    i + Len(sub) - 1 <= Len(s) /\ SubSeq(s, i, i + Len(sub) - 1) = sub

\* strings.Index, counted from 1; 0 when sub does not occur
index(s, sub) ==
    LET I == {i \in 1..Len(s) : occursAt(s, sub, i)}
    IN  IF I = {} THEN 0 ELSE CHOOSE i \in I : \A j \in I : i <= j

\* strings.LastIndex, counted from 1; 0 when sub does not occur
lastIndex(s, sub) ==
    LET I == {i \in 1..Len(s) : occursAt(s, sub, i)}
    IN  IF I = {} THEN 0 ELSE CHOOSE i \in I : \A j \in I : j <= i

\* strings.Contains
contains(s, sub) == index(s, sub) # 0

Digits == {"0", "1", "2", "3", "4", "5", "6", "7", "8", "9"}
LowerHex == {"a", "b", "c", "d", "e", "f"}
UpperHex == {"A", "B", "C", "D", "E", "F"}
HexDigits == Digits \cup LowerHex \cup UpperHex

HexVal ==
    [c \in HexDigits |->
        CASE c = "0" -> 0 [] c = "1" -> 1 [] c = "2" -> 2 [] c = "3" -> 3
          [] c = "4" -> 4 [] c = "5" -> 5 [] c = "6" -> 6 [] c = "7" -> 7
          [] c = "8" -> 8 [] c = "9" -> 9
          [] c \in {"a", "A"} -> 10 [] c \in {"b", "B"} -> 11
          [] c \in {"c", "C"} -> 12 [] c \in {"d", "D"} -> 13
          [] c \in {"e", "E"} -> 14 [] c \in {"f", "F"} -> 15]

\* the longest prefix of s made of characters of set
RECURSIVE run(_, _)
run(s, set) ==
    IF s # "" /\ Ch(s, 1) \in set
    THEN Ch(s, 1) \o run(From(s, 2), set)
    ELSE ""

\* the value of a string of digits in the base
RECURSIVE number(_, _)
number(d, base) ==
    IF d = "" THEN 0
    ELSE base * number(SubSeq(d, 1, Len(d) - 1), base) + HexVal[Ch(d, Len(d))]

\* the decimal text of a natural number (strconv.Itoa)
RECURSIVE itoa(_)
itoa(n) ==
    LET d == CHOOSE c \in Digits : HexVal[c] = n % 10
    IN  IF n < 10 THEN d ELSE itoa(n \div 10) \o d

\* the fields of s between the separators
RECURSIVE split(_, _)
split(s, sep) ==
    LET i == index(s, sep)
    IN  IF i = 0 THEN <<s>>
        ELSE <<SubSeq(s, 1, i - 1)>> \o split(From(s, i + 1), sep)

-----------------------------------------------------------------------------
(* net.ParseIP and the predicates of net.IP.  An address is its 16 bytes    *)
(* (an IPv4 address in the IPv4-mapped form); NoIP is the nil result.       *)

NoIP == <<>>

Zeros(n) == [i \in 1..n |-> 0]

\* one dotted field: digits, no leading zero, at most 255
okField(f) ==
    /\ f # ""
    /\ run(f, Digits) = f
    /\ Len(f) > 1 => Ch(f, 1) # "0"
    /\ Len(f) <= 3
    /\ number(f, 10) <= 255

\* the four bytes of a dotted quad, NoIP when it is malformed
parseIPv4(s) ==
    LET f == split(s, ".")
    IN  IF Len(f) = 4 /\ \A i \in 1..4 : okField(f[i])
        THEN [i \in 1..4 |-> number(f[i], 10)]
        ELSE NoIP

\* the end of the IPv6 parsing loop: g are the 16-bit fields read, ell the
\* number of fields before "::" (-1 without "::"), s the text left over
v6Finish(s, g, ell) ==
    IF s # "" THEN NoIP
    ELSE IF Len(g) < 8
         THEN IF ell < 0 THEN NoIP
              ELSE SubSeq(g, 1, ell) \o Zeros(8 - Len(g))
                       \o SubSeq(g, ell + 1, Len(g))
         ELSE IF ell >= 0 THEN NoIP ELSE g

\* the IPv6 parsing loop
RECURSIVE v6Loop(_, _, _)
v6Loop(s, g, ell) ==
    IF Len(g) >= 8 THEN v6Finish(s, g, ell)
    ELSE
    LET d    == run(s, HexDigits)
        rest == From(s, Len(d) + 1)
    IN  IF d = "" \/ Len(d) > 4 THEN NoIP
        ELSE IF rest # "" /\ Ch(rest, 1) = "."
        THEN IF (ell < 0 /\ Len(g) # 6) \/ Len(g) + 2 > 8 THEN NoIP
             ELSE LET q == parseIPv4(s)
                  IN  IF q = NoIP THEN NoIP
                      ELSE v6Finish("", g \o <<q[1] * 256 + q[2],
                                               q[3] * 256 + q[4]>>, ell)
        ELSE LET g2 == Append(g, number(d, 16))
             IN  IF rest = "" THEN v6Finish("", g2, ell)
                 ELSE IF Ch(rest, 1) # ":" \/ Len(rest) = 1 THEN NoIP
                 ELSE IF Ch(rest, 2) = ":"
                 THEN IF ell >= 0 THEN NoIP
                      ELSE IF Len(rest) = 2 THEN v6Finish("", g2, Len(g2))
                      ELSE v6Loop(From(rest, 3), g2, Len(g2))
                 ELSE v6Loop(From(rest, 2), g2, ell)

\* the eight 16-bit fields of an IPv6 text, NoIP when it is malformed
parseIPv6(s) ==
    IF occursAt(s, "::", 1)
    THEN IF Len(s) = 2 THEN Zeros(8) ELSE v6Loop(From(s, 3), <<>>, 0)
    ELSE v6Loop(s, <<>>, -1)

\* net.ParseIP: the first '.', ':' or '%' decides the family
netParseIP(s) ==
    LET I == {i \in 1..Len(s) : Ch(s, i) \in {".", ":", "%"}}
        c == Ch(s, CHOOSE i \in I : \A j \in I : i <= j)
    IN  IF I = {} \/ c = "%" THEN NoIP
        ELSE IF c = "."
        THEN LET q == parseIPv4(s)
             IN  IF q = NoIP THEN NoIP
                 ELSE Zeros(10) \o <<255, 255>> \o q
        ELSE LET g == parseIPv6(s)
             IN  IF g = NoIP THEN NoIP
                 ELSE [i \in 1..16 |-> IF i % 2 = 1 THEN g[(i + 1) \div 2] \div 256
                                       ELSE g[i \div 2] % 256]

\* IP.To4: the last four bytes of an IPv4-mapped address, else NoIP
To4(ip) ==
    IF SubSeq(ip, 1, 12) = Zeros(10) \o <<255, 255>>
    THEN SubSeq(ip, 13, 16)
    ELSE NoIP

IsUnspecified(ip) ==
    ip = Zeros(10) \o <<255, 255, 0, 0, 0, 0>> \/ ip = Zeros(16)

IsLoopback(ip) ==
    IF To4(ip) # NoIP THEN To4(ip)[1] = 127
    ELSE ip = Zeros(15) \o <<1>>

IsLinkLocalUnicast(ip) ==
    IF To4(ip) # NoIP THEN To4(ip)[1] = 169 /\ To4(ip)[2] = 254
    ELSE ip[1] = 254 /\ ip[2] \div 64 = 2

IsLinkLocalMulticast(ip) ==
    IF To4(ip) # NoIP
    THEN To4(ip)[1] = 224 /\ To4(ip)[2] = 0 /\ To4(ip)[3] = 0
    ELSE ip[1] = 255 /\ ip[2] % 16 = 2

IsMulticast(ip) ==
    IF To4(ip) # NoIP THEN To4(ip)[1] \div 16 = 14
    ELSE ip[1] = 255

IsPrivate(ip) ==
    IF To4(ip) # NoIP
    THEN \/ To4(ip)[1] = 10
         \/ To4(ip)[1] = 172 /\ To4(ip)[2] \div 16 = 1
         \/ To4(ip)[1] = 192 /\ To4(ip)[2] = 168
    ELSE ip[1] \div 2 = 126

-----------------------------------------------------------------------------
(* package ip: Classify *)

TypePublic == "Public"
TypePrivate == "Private"
TypeLoopback == "Loopback"
TypeLinkLocal == "Link-Local"
TypeMulticast == "Multicast"
TypeUnspecified == "Unspecified"
TypeInvalid == "Invalid"

\* the networks of init(): address bytes and prefix length
reservedBlocks ==
    << [ip |-> <<100, 64, 0, 0>>, bits |-> 10],
       [ip |-> <<192, 0, 0, 0>>, bits |-> 24],
       [ip |-> <<192, 0, 2, 0>>, bits |-> 24],
       [ip |-> <<198, 18, 0, 0>>, bits |-> 15],
       [ip |-> <<198, 51, 100, 0>>, bits |-> 24],
       [ip |-> <<203, 0, 113, 0>>, bits |-> 24],
       [ip |-> <<240, 0, 0, 0>>, bits |-> 4],
       [ip |-> <<255, 255, 255, 255>>, bits |-> 32] >>

\* IPNet.Contains for an IPv4 network
Contains(block, ip) ==
    LET x == To4(ip)
    IN  /\ x # NoIP
        /\ \A i \in 1..4 :
              LET k == block.bits - 8 * (i - 1)
              IN  IF k >= 8 THEN x[i] = block.ip[i]
                  ELSE IF k <= 0 THEN TRUE
                  ELSE x[i] \div (2 ^ (8 - k)) = block.ip[i] \div (2 ^ (8 - k))

\* Classify
Classify(ipStr) ==
    LET t  == trimSpace(ipStr)
        ip == netParseIP(t)
    IN  IF t = "" \/ t = "Not Detected" \/ t = "Not Applicable"
        THEN TypeInvalid
        ELSE IF ip = NoIP THEN TypeInvalid
        ELSE IF IsUnspecified(ip) THEN TypeUnspecified
        ELSE IF IsLoopback(ip) THEN TypeLoopback
        ELSE IF IsLinkLocalUnicast(ip) \/ IsLinkLocalMulticast(ip)
             THEN TypeLinkLocal
        ELSE IF IsMulticast(ip) THEN TypeMulticast
        ELSE IF IsPrivate(ip) THEN TypePrivate
        ELSE IF \E i \in 1..Len(reservedBlocks) : Contains(reservedBlocks[i], ip)
             THEN TypePrivate
        ELSE TypeInvalid

\* no interactive session takes part in the study of a single function
NoSession ==
    /\ pc = "none"
    /\ target = ""
    /\ ipv4 = ""
    /\ ipv6 = ""
    /\ geoInfo = NilGeo
    /\ message = ""
    /\ loading = FALSE
    /\ showDetail = FALSE
    /\ fetchingDetail = FALSE
    /\ inflight = EmptyBag
    /\ issued = EmptyBag
    /\ last = Event("none", "", FALSE, "")

\* dotted quads that cover every branch of Classify
Quads ==
    {itoa(a) \o "." \o itoa(b) \o "." \o itoa(c) \o "." \o itoa(d) :
        a \in {0, 8, 10, 100, 127, 169, 172, 192, 198, 203, 224, 239, 240, 255},
        b \in {0, 16, 18, 51, 64, 168, 254, 255},
        c \in {0, 2, 100, 113, 255},
        d \in {0, 1, 255}}

\* the examples of the documentation, IPv6 texts, placeholders and texts that
\* are no address
ClassifyCores ==
    {"0.0.0.0", "127.0.0.1", "10.1.2.3", "169.254.1.1", "224.0.0.1",
     "224.1.1.1", "8.8.8.8", "1.1.1.1", "::", "::1", "fe80::1", "ff02::1",
     "ff0e::1", "fc00::1", "fd12:3456::1", "2001:4860:4860::8888",
     "::ffff:127.0.0.1", "::ffff:8.8.8.8", "1:2:3:4:5:6:7:8",
     "1:2:3:4:5:6:1.2.3.4",
     "", "Not Detected", "Not Applicable", "example.com", "localhost",
     "1.2.3", "1.2.3.4.5", "256.1.1.1", "01.2.3.4", "1..2.3", "1.2.3.4x",
     ":::", "1:2:3", "1::2::3", "12345::", "fe80::1%eth0", "1:2:3:4:5:6:7:8:9",
     "::1.2.3"}

ClassifyInputs ==
    Quads \cup {pre \o core \o post : pre \in {"", " "},
                                          core \in ClassifyCores,
                                          post \in {"", "\n"}}

InitClassify ==
    /\ NoSession
    /\ input \in ClassifyInputs
    /\ output = <<>>

CallClassify ==
    /\ output = <<>>
    /\ output' = <<Classify(input)>>
    /\ UNCHANGED <<input, sessionVars>>

NextClassify == CallClassify

SpecClassify == InitClassify /\ [][NextClassify]_vars

-----------------------------------------------------------------------------
(* package ip: ExtractFromURL and IsValidTarget *)

\* net.SplitHostPort: ok is FALSE when it returns an error
SplitHostPort(hostport) ==
    LET i    == lastIndex(hostport, ":")
        end  == index(hostport, "]")
        Err  == [ok |-> FALSE, host |-> ""]
    IN  IF i = 0 THEN Err
        ELSE IF Ch(hostport, 1) = "["
        THEN IF end = 0 THEN Err
             ELSE IF end = Len(hostport) THEN Err
             ELSE IF end + 1 # i THEN Err
             ELSE IF contains(From(hostport, 2), "[") THEN Err
             ELSE IF contains(From(hostport, end + 1), "]") THEN Err
             ELSE [ok |-> TRUE, host |-> SubSeq(hostport, 2, end - 1)]
        ELSE IF contains(SubSeq(hostport, 1, i - 1), ":") THEN Err
             ELSE IF contains(hostport, "[") THEN Err
             ELSE IF contains(hostport, "]") THEN Err
             ELSE [ok |-> TRUE, host |-> SubSeq(hostport, 1, i - 1)]

\* strings.TrimPrefix, strings.TrimSuffix
TrimPrefix(s, pre) == IF occursAt(s, pre, 1) THEN From(s, Len(pre) + 1) ELSE s
TrimSuffix(s, suf) ==
    IF Len(suf) <= Len(s) /\ occursAt(s, suf, Len(s) - Len(suf) + 1)
    THEN SubSeq(s, 1, Len(s) - Len(suf))
    ELSE s

\* ExtractFromURL
ExtractFromURL(in) ==
    LET a == trim(trimSpace(in), {"\"", "'"})
        b == IF index(a, "://") # 0 THEN From(a, index(a, "://") + 3) ELSE a
        c == IF index(b, "/") # 0 THEN SubSeq(b, 1, index(b, "/") - 1) ELSE b
        hp == SplitHostPort(c)
    IN  IF hp.ok THEN hp.host
        ELSE TrimSuffix(TrimPrefix(c, "["), "]")

Lower == {"a", "b", "c", "d", "e", "f", "g", "h", "i", "j", "k", "l", "m",
          "n", "o", "p", "q", "r", "s", "t", "u", "v", "w", "x", "y", "z"}
Upper == {"A", "B", "C", "D", "E", "F", "G", "H", "I", "J", "K", "L", "M",
          "N", "O", "P", "Q", "R", "S", "T", "U", "V", "W", "X", "Y", "Z"}

\* isValidDomainChar
isValidDomainChar(ch) ==
    ch \in Lower \/ ch \in Upper \/ ch \in Digits \/ ch = "." \/ ch = "-"

\* the DNS limit IsValidTarget applies
MaxDomainLen == 253

\* IsValidTarget
IsValidTarget(tgt) ==
    LET t == trimSpace(tgt)
    IN  IF netParseIP(t) # NoIP THEN TRUE
        ELSE IF Len(t) > MaxDomainLen THEN FALSE
        ELSE IF contains(t, " ") THEN FALSE
        ELSE IF ~contains(t, ".") /\ t # "localhost" THEN FALSE
        ELSE \A i \in 1..Len(t) : isValidDomainChar(Ch(t, i))

\* what may surround a pasted URL: nothing, white space, quotes, white space
\* outside quotes, white space inside quotes
PlainWraps ==
    { [pre |-> "", post |-> ""],
      [pre |-> " ", post |-> "\n"],
      [pre |-> "\"", post |-> "\""],
      [pre |-> "'", post |-> "'"],
      [pre |-> " \"", post |-> "\"\n"] }
Wraps == PlainWraps \cup { [pre |-> "\" ", post |-> " \""] }

Schemes == {"", "http://", "https://"}
PlainHosts == {"github.com", "192.168.1.1", "[::1]", "localhost"}
Hosts == PlainHosts \cup {"::1", "[[::1]]", "[a:1]"}
Ports == {"", ":8080"}
Paths == {"", "/", "/user/repo", "/r?u=http://x.org/"}

\* the pasted texts studied, by their parts
Urls == [wrap : Wraps, scheme : Schemes, host : Hosts, port : Ports,
         path : Paths]

UrlText(u) ==
    u.wrap.pre \o u.scheme \o u.host \o u.port \o u.path \o u.wrap.post

InitExtract ==
    /\ NoSession
    /\ input \in Urls
    /\ output = <<>>

CallExtract ==
    /\ output = <<>>
    /\ output' = <<ExtractFromURL(UrlText(input))>>
    /\ UNCHANGED <<input, sessionVars>>

NextExtract == CallExtract

SpecExtract == InitExtract /\ [][NextExtract]_vars

\* the longest text enumerated character by character
MaxTextLen == 3

\* one character of each kind IsValidTarget tells apart
Alphabet == {"a", "Z", "1", ".", "-", ":", " ", "_", "\t"}

\* all texts of n characters of the alphabet
RECURSIVE TextsOfLen(_)
TextsOfLen(n) ==
    IF n = 0 THEN {""}
    ELSE {s \o c : s \in TextsOfLen(n - 1), c \in Alphabet}

\* n copies of c
RECURSIVE Repeat(_, _)
Repeat(c, n) ==
    LET h == Repeat(c, n \div 2)
    IN  IF n = 0 THEN "" ELSE IF n % 2 = 0 THEN h \o h ELSE h \o h \o c

\* the examples of the documentation and texts around the length limit
TargetExamples ==
    {"8.8.8.8", "google.com", "localhost", "has space", "google",
     "example.com:8080", " google.com\n", "2001:db8::1", "::1", "exam_ple.com",
     "my-host.example.org", "a." \o Repeat("a", MaxDomainLen - 2),
     "a." \o Repeat("a", MaxDomainLen - 1),
     Repeat("a", MaxDomainLen + 1)}

TargetTexts ==
    TargetExamples \cup UNION {TextsOfLen(n) : n \in 0..MaxTextLen}

InitValidate ==
    /\ NoSession
    /\ input \in TargetTexts
    /\ output = <<>>

CallIsValidTarget ==
    /\ output = <<>>
    /\ output' = <<IsValidTarget(input)>>
    /\ UNCHANGED <<input, sessionVars>>

NextValidate == CallIsValidTarget

SpecValidate == InitValidate /\ [][NextValidate]_vars

-----------------------------------------------------------------------------
(* cmd: run and getTarget, cli.ReadStdin.  An invocation is the clipboard   *)
(* flag, what the clipboard and stdin hold, the arguments, and whether the  *)
(* format is the TUI on a terminal.                                          *)

\* what the user may have typed, piped or copied
UserTexts ==
    {"", "8.8.8.8", "https://github.com/user/repo", "has space", "google",
     "  "}

\* clipboard.ReadAll and the first line of stdin: an error or a text
Reads == {[err |-> TRUE, text |-> ""]} \cup [err : {FALSE}, text : UserTexts]

\* the command lines studied: no argument, one, or two
ArgLists ==
    {<<>>} \cup {<<t>> : t \in UserTexts} \cup {<<"8.8.8.8", "google">>}

Invocations ==
    [fromClipboard : BOOLEAN, clipboard : Reads, args : ArgLists,
     hasStdin : BOOLEAN, stdin : Reads,
     terminal : BOOLEAN, showDetail : BOOLEAN]

Failed(title) == [err |-> TRUE, title |-> title, target |-> ""]
Target(t) == [err |-> FALSE, title |-> "", target |-> t]

\* cli.ReadStdin
ReadStdin(v) ==
    IF ~v.hasStdin THEN Target("")
    ELSE IF v.stdin.err THEN Failed("no input")
    ELSE LET line == trimSpace(v.stdin.text)
             tgt  == ExtractFromURL(line)
         IN  IF line = "" THEN Failed("empty input")
             ELSE IF ~IsValidTarget(tgt) THEN Failed("invalid target")
             ELSE Target(tgt)

\* rootCmd.Args: the error it returns, "" for nil
checkArgs(v) ==
    IF v.fromClipboard /\ Len(v.args) > 0
    THEN "Cannot use both clipboard and target argument"
    ELSE IF Len(v.args) > 1 THEN "Too many arguments"
    ELSE ""

\* a getTarget that reads stdin before it looks at the argument
getTarget_StdinFirst(v) ==
    IF v.fromClipboard
    THEN LET content == trimSpace(v.clipboard.text)
             tgt     == ExtractFromURL(content)
         IN  IF v.clipboard.err THEN Failed("Failed to read clipboard")
             ELSE IF content = "" THEN Failed("Clipboard is empty")
             ELSE IF ~IsValidTarget(tgt)
                  THEN Failed("Invalid clipboard content")
             ELSE Target(tgt)
    ELSE IF v.hasStdin
         THEN IF ReadStdin(v).err THEN Failed("Failed to read stdin")
              ELSE ReadStdin(v)
    ELSE IF Len(v.args) > 0 THEN Target(v.args[1])
    ELSE Target("")

\* getTarget
getTarget(v) ==
    IF v.fromClipboard
    THEN LET content == trimSpace(v.clipboard.text)
             tgt     == ExtractFromURL(content)
         IN  IF v.clipboard.err THEN Failed("Failed to read clipboard")
             ELSE IF content = "" THEN Failed("Clipboard is empty")
             ELSE IF ~IsValidTarget(tgt)
                  THEN Failed("Invalid clipboard content")
             ELSE Target(tgt)
    ELSE IF Len(v.args) > 0 THEN Target(v.args[1])
    ELSE IF v.hasStdin
         THEN IF ReadStdin(v).err THEN Failed("Failed to read stdin")
              ELSE ReadStdin(v)
    ELSE Target("")

\* cli.IsInteractive with the TUI format selected
interactive(v) == ~v.hasStdin /\ v.terminal

InitRun ==
    /\ pc = "args"
    /\ input \in Invocations
    /\ output = <<>>
    /\ target = ""
    /\ ipv4 = ""
    /\ ipv6 = ""
    /\ geoInfo = NilGeo
    /\ message = ""
    /\ loading = FALSE
    /\ showDetail = FALSE
    /\ fetchingDetail = FALSE
    /\ inflight = EmptyBag
    /\ issued = EmptyBag
    /\ last = Event("none", "", FALSE, "")

\* rootCmd.Args runs before RunE: an error ends the command
RunArgs ==
    /\ pc = "args"
    /\ IF checkArgs(input) = ""
       THEN pc' = "run" /\ UNCHANGED output
       ELSE pc' = "exit" /\ output' = <<Failed(checkArgs(input))>>
    /\ UNCHANGED <<input, appVars, inflight, issued, last>>

\* run: target, err := getTarget(args)
RunGetTarget ==
    /\ pc = "run"
    /\ output' = <<getTarget(input)>>
    /\ pc' = "target"
    /\ UNCHANGED <<input, appVars, inflight, issued, last>>

\* run: if err != nil { return err }
RunFail ==
    /\ pc = "target"
    /\ output[1].err
    /\ pc' = "exit"
    /\ UNCHANGED <<input, output, appVars, inflight, issued, last>>

\* run: tea.NewProgram(tui.NewApp(target, showDetail))
RunNewApp ==
    /\ pc = "target"
    /\ ~output[1].err
    /\ interactive(input)
    /\ pc' = "new"
    /\ target' = output[1].target
    /\ showDetail' = input.showDetail
    /\ loading' = TRUE
    /\ UNCHANGED <<input, output, ipv4, ipv6, geoInfo, message,
                   fetchingDetail, inflight, issued, last>>

\* run: output.Print(target, showDetail, format)
RunPrint ==
    /\ pc = "target"
    /\ ~output[1].err
    /\ ~interactive(input)
    /\ pc' = "print"
    /\ target' = output[1].target
    /\ showDetail' = input.showDetail
    /\ UNCHANGED <<input, output, ipv4, ipv6, geoInfo, message, loading,
                   fetchingDetail, inflight, issued, last>>

NextRun ==
    \/ RunArgs
    \/ RunGetTarget
    \/ RunFail
    \/ RunNewApp
    \/ RunPrint

SpecRun == InitRun /\ [][NextRun]_vars

-----------------------------------------------------------------------------
(* package output: Print and FetchResult, and cmd.Execute.  The query that  *)
(* runs without the TUI: both families are resolved in turn, the result is  *)
(* printed in the chosen format and the process exits.                      *)

Formats == {"text", "json", "yaml", "quiet"}

ExitSuccess == 0
ExitGeneralError == 1

\* isValidIP
isValidIP(s) == s # "" /\ s # "Not Detected" /\ s # "Not Applicable"

\* the gateway call ResolveIPv4 / ResolveIPv6 makes for the target: the echo
\* service or the DNS lookup of the family, none for an IP literal
resolveCalls(t, c) == IF t # "" /\ ParseIP(t) # 0 THEN <<>> ELSE <<c>>

\* the Result FetchResult returns
Result(t, v4, v6, detail) ==
    [ Target  |-> IF t = "" THEN "(localhost)" ELSE t,
      IPv4    |-> v4,
      IPv6    |-> v6,
      Type    |-> IF isValidIP(v4) THEN Classify(v4)
                  ELSE IF isValidIP(v6) THEN Classify(v6)
                  ELSE "",
      Detail  |-> detail,
      Success |-> isValidIP(v4) \/ isValidIP(v6),
      Error   |-> IF isValidIP(v4) \/ isValidIP(v6) THEN ""
                  ELSE "Could not detect IP address" ]

InitPrint ==
    /\ pc = "print"
    /\ target \in Targets
    /\ showDetail \in BOOLEAN
    /\ input \in [format : Formats, writeFails : BOOLEAN]
    /\ output = <<>>
    /\ ipv4 = ""
    /\ ipv6 = ""
    /\ geoInfo = NilGeo
    /\ message = ""
    /\ loading = FALSE
    /\ fetchingDetail = FALSE
    /\ inflight = EmptyBag
    /\ issued = EmptyBag
    /\ last = Event("none", "", FALSE, "")

\* FetchResult: result.IPv4 = network.ResolveIPv4(target)
PrintResolveIPv4 ==
    /\ pc = "print"
    /\ pc' = "v4"
    /\ ipv4' \in ResolveIPv4(target)
    /\ issued' = issued (+) NewCmds(resolveCalls(target, CmdV4))
    /\ UNCHANGED <<target, ipv6, geoInfo, message, loading, showDetail,
                   fetchingDetail, inflight, last, input, output>>

\* FetchResult: result.IPv6 = network.ResolveIPv6(target)
PrintResolveIPv6 ==
    /\ pc = "v4"
    /\ pc' = "v6"
    /\ ipv6' \in ResolveIPv6(target)
    /\ issued' = issued (+) NewCmds(resolveCalls(target, CmdV6))
    /\ UNCHANGED <<target, ipv4, geoInfo, message, loading, showDetail,
                   fetchingDetail, inflight, last, input, output>>

\* a FetchResult that prefers the IPv6 result for the geolocation
targetIP_PrefersIPv6(v4, v6) == IF isValidIP(v6) THEN v6 ELSE v4

\* FetchResult: the address the geolocation is fetched for
targetIP(v4, v6) == IF isValidIP(v4) THEN v4 ELSE v6

\* FetchResult: the geolocation fetch it makes, if any
detailCalls(v4, v6, detail) ==
    IF detail /\ (isValidIP(v4) \/ isValidIP(v6)) /\ isValidIP(targetIP(v4, v6))
    THEN <<CmdGeo(targetIP(v4, v6))>>
    ELSE <<>>

\* FetchResult: type, success flag and detail; the result is returned
PrintFetchResult ==
    /\ pc = "v6"
    /\ pc' = "result"
    /\ IF detailCalls(ipv4, ipv6, showDetail) # <<>>
       THEN \E r \in FetchGeoInfo(targetIP(ipv4, ipv6)) :
                geoInfo' = IF r.err = "" THEN r.info ELSE NilGeo
       ELSE geoInfo' = NilGeo
    /\ issued' = issued (+) NewCmds(detailCalls(ipv4, ipv6, showDetail))
    /\ output' = <<Result(target, ipv4, ipv6, geoInfo')>>
    /\ UNCHANGED <<target, ipv4, ipv6, message, loading, showDetail,
                   fetchingDetail, inflight, last, input>>

\* Print: the printer's error; only the JSON and YAML encoders return one
PrintWrite ==
    /\ pc = "result"
    /\ pc' = "returned"
    /\ output' = Append(output,
                        [err |-> input.format \in {"json", "yaml"}
                                     /\ input.writeFails])
    /\ UNCHANGED <<appVars, inflight, issued, last, input>>

\* Execute: os.Exit(ExitGeneralError) on an error, else the normal exit
PrintExit ==
    /\ pc = "returned"
    /\ pc' = "exit"
    /\ output' = Append(output, IF output[2].err THEN ExitGeneralError
                                ELSE ExitSuccess)
    /\ UNCHANGED <<appVars, inflight, issued, last, input>>

NextPrint ==
    \/ PrintResolveIPv4
    \/ PrintResolveIPv6
    \/ PrintFetchResult
    \/ PrintWrite
    \/ PrintExit

SpecPrint == InitPrint /\ [][NextPrint]_vars

-----------------------------------------------------------------------------
(* C15 *)

\* the first category that matches, in the documented order
FirstMatch(ip) ==
    IF IsUnspecified(ip) THEN "Unspecified"
    ELSE IF IsLoopback(ip) THEN "Loopback"
    ELSE IF IsLinkLocalUnicast(ip) \/ IsLinkLocalMulticast(ip) THEN "Link-Local"
    ELSE IF IsMulticast(ip) THEN "Multicast"
    ELSE IF IsPrivate(ip) THEN "Private"
    ELSE "Public"

\* the address the argument of Classify stands for
Parsed == netParseIP(trimSpace(input))

\* C15: for every text that parses as an address, Classify returns the first
\* matching category in the order Unspecified, Loopback, Link-Local,
\* Multicast, Private, and Public when none matches; 0.0.0.0 is Unspecified,
\* 127.0.0.1 Loopback, 10.1.2.3 Private, 169.254.1.1 Link-Local, 224.0.0.1
\* Multicast and 8.8.8.8 Public.
C15_ClassifyFirstMatch ==
    output # <<>> =>
        /\ Parsed # NoIP => output[1] = FirstMatch(Parsed)
        /\ input = "0.0.0.0" => output[1] = "Unspecified"
        /\ input = "127.0.0.1" => output[1] = "Loopback"
        /\ input = "10.1.2.3" => output[1] = "Private"
        /\ input = "169.254.1.1" => output[1] = "Link-Local"
        /\ input = "224.0.0.1" => output[1] = "Multicast"
        /\ input = "8.8.8.8" => output[1] = "Public"

-----------------------------------------------------------------------------
(* C16 *)

Placeholders == {"", "Not Detected", "Not Applicable"}

\* C16: Classify is total; it returns Invalid exactly for the texts that,
\* trimmed, are empty, a placeholder or no IP address, so that every text
\* that parses as an address gets another category.
C16_InvalidOnlyForNonAddresses ==
    output # <<>> =>
        /\ output[1] \in {"Public", "Private", "Loopback", "Link-Local",
                          "Multicast", "Unspecified", "Invalid"}
        /\ output[1] = "Invalid" <=>
              (trimSpace(input) \in Placeholders \/ Parsed = NoIP)

-----------------------------------------------------------------------------
(* C17 *)

\* C17: ExtractFromURL is idempotent: applied to its own result, whatever the
\* quotes, white space, scheme, path, port and brackets of the text it was
\* given, it returns that result.
C17_ExtractIdempotent ==
    output # <<>> => ExtractFromURL(output[1]) = output[1]

-----------------------------------------------------------------------------
(* C18 *)

\* the characters the documented rule admits in a name
DocumentedChars == Lower \cup Upper \cup Digits \cup {".", "-", ":"}

\* the documented rule for a text that is no IP address
DocumentedName(t) ==
    /\ Len(t) <= 253
    /\ \A i \in 1..Len(t) : Ch(t, i) \notin White
    /\ contains(t, ".") \/ t = "localhost"
    /\ \A i \in 1..Len(t) : Ch(t, i) \in DocumentedChars

\* C18: IsValidTarget accepts every text that parses as an IP address; any
\* other text it accepts exactly when it is at most 253 long, has no embedded
\* white space, contains a '.' or is "localhost", and is made of letters,
\* digits, '.', '-' and ':'.  "8.8.8.8", "google.com" and "localhost" are
\* accepted, "has space" and over-long texts are rejected.
C18_ValidTargetRule ==
    output # <<>> =>
        LET t == trimSpace(input)
        IN  /\ netParseIP(t) # NoIP => output[1] = TRUE
            /\ netParseIP(t) = NoIP => output[1] = DocumentedName(t)
            /\ input \in {"8.8.8.8", "google.com", "localhost"}
                  => output[1] = TRUE
            /\ (input = "has space" \/ Len(input) > 253) => output[1] = FALSE

-----------------------------------------------------------------------------
(* C19 *)

\* the text has the form [quotes/space] [scheme://] host [:port] [/path] with
\* a hostname, an IPv4 literal or a bracketed IPv6 literal as host
WellFormed(u) == u.wrap \in PlainWraps /\ u.host \in PlainHosts

\* the host without its brackets
Bare(h) == TrimSuffix(TrimPrefix(h, "["), "]")

\* C19: for a text of the form [quotes/space] [scheme://] host [:port]
\* [/path], ExtractFromURL returns the host without scheme, port, path and
\* brackets; a bare host is returned unchanged.
C19_ExtractReturnsHost ==
    (output # <<>> /\ WellFormed(input)) => output[1] = Bare(input.host)

-----------------------------------------------------------------------------
(* C20 *)

\* C20: every non-empty target handed to tui.NewApp or to output.Print has
\* passed IsValidTarget, whether it came from the clipboard, an argument or
\* stdin; an invalid one ends run with an error before either is called.
C20_TargetValidatedBeforeUse ==
    (pc \in {"new", "print"} /\ target # "") => IsValidTarget(target)

-----------------------------------------------------------------------------
(* C21 *)

\* what the resolver of the family may return for the target, and whether it
\* may call the network
Resolves(t, fam, addrs, r, called) ==
    /\ r # ""
    /\ IF t # "" /\ ParseIP(t) # 0
       THEN /\ r = IF ParseIP(t) = fam THEN t ELSE "Not Applicable"
            /\ ~called
       ELSE r \in addrs \cup {"Not Detected"}

\* C21: ResolveIPv4 and ResolveIPv6 never return the empty string.  For an
\* IP literal the resolver of its family returns the target and the other one
\* "Not Applicable", both without a network call; for an empty or hostname
\* target each returns the address looked up, or "Not Detected" on failure.
C21_ResolveNeverEmpty ==
    [][ /\ (pc = "print" /\ pc' = "v4") =>
              Resolves(target, 4, V4Addrs, ipv4', issued' # issued)
        /\ (pc = "v4" /\ pc' = "v6") =>
              Resolves(target, 6, V6Addrs, ipv6', issued' # issued) ]_vars

-----------------------------------------------------------------------------
(* C23 *)

\* C23: the exit code is 0 exactly when the run succeeded: a query without the
\* TUI in which neither address was detected (Result.Success = false) exits
\* with a non-zero code, and so does every error the command returns.
C23_ExitCodeReflectsSuccess ==
    pc = "exit" =>
        (output[3] = 0 <=> (output[1].Success /\ ~output[2].err))

-----------------------------------------------------------------------------
(* C22 *)

\* the result comes from this source: an error, or the host extracted from
\* its trimmed text
FromSource(r, read) ==
    IF read.err THEN r.err
    ELSE r.err \/ r.target = ExtractFromURL(trimSpace(read.text))

\* C22: the target is chosen by the precedence clipboard (-c) > argument >
\* stdin > empty: with -c getTarget answers from the clipboard, else with the
\* argument when there is one, else from the first stdin line when stdin is
\* piped, else with the empty target; -c together with an argument, and more
\* than one argument, are rejected before getTarget runs.
C22_TargetPrecedence ==
    IF checkArgs(input) # ""
    THEN pc \in {"args", "exit"} /\ target = ""
    ELSE output # <<>> =>
           IF input.fromClipboard THEN FromSource(output[1], input.clipboard)
           ELSE IF input.args # <<>> THEN output[1] = Target(input.args[1])
           ELSE IF input.hasStdin THEN FromSource(output[1], input.stdin)
           ELSE output[1] = Target("")

\* an argument was given while stdin was piped with another valid target, and
\* getTarget has answered with the argument
C22_Witness ==
    /\ pc = "target"
    /\ ~input.fromClipboard
    /\ input.args = <<"8.8.8.8">>
    /\ input.hasStdin
    /\ input.stdin = [err |-> FALSE, text |-> "https://github.com/user/repo"]
    /\ output = <<Target("8.8.8.8")>>
-----------------------------------------------------------------------------
(* C24 *)

\* C24: handling an address completion settles the slot of that family:
\* after ipv4Msg(value) the IPv4 slot holds the delivered value, which is a
\* concrete address or "Not Detected", and is never still empty, whatever
\* the lookup path delivers; symmetric for ipv6Msg.
C24_CompletionSettlesSlot ==
    [][ /\ last'.kind = "ipv4Msg" =>
              /\ ipv4' = last'.val
              /\ Resolved(ipv4') \/ ipv4' = "Not Detected"
        /\ last'.kind = "ipv6Msg" =>
              /\ ipv6' = last'.val
              /\ Resolved(ipv6') \/ ipv6' = "Not Detected" ]_vars

-----------------------------------------------------------------------------
(* C25 *)

\* the geolocation fetches the step issues (a refresh starts a new cycle, so
\* everything it issues is new)
NewGeoFetches ==
    {c \in BagToSet(issued') :
        /\ c.kind = "geo"
        /\ CopiesIn(c, issued') >
               (IF last'.kind \in {"Init", "r"} THEN 0 ELSE CopiesIn(c, issued))}

\* C25: every geolocation fetch a step issues is issued on a value that one
\* of the two slots holds after the step and that is usable (non-empty,
\* neither "Not Detected" nor "Not Applicable"); with a hostname or empty
\* target none is issued while neither slot holds a concrete address.
C25_GeoFetchOnUsableSlotValue ==
    [][ \A c \in NewGeoFetches :
            /\ usable(c.arg)
            /\ c.arg \in {ipv4', ipv6'}
            /\ NonLiteral => (Resolved(ipv4') \/ Resolved(ipv6')) ]_vars

-----------------------------------------------------------------------------
(* C26 *)

\* C26: once geoInfo is set, to a success or to a failure, no event other
\* than a refresh changes it again; so within one cycle the geo state goes
\* from absent to Available or Failed at most once.
C26_GeoSetOncePerCycle ==
    [][ (geoInfo # NilGeo /\ last'.kind # "r") => geoInfo' = geoInfo ]_vars

-----------------------------------------------------------------------------
(* C27 *)

\* C27: while detail mode is off, geoInfo is absent, fetchingDetail is false
\* and no geolocation fetch has been issued in the current cycle.
C27_GeoOnlyInDetailMode ==
    (pc # "new" /\ ~showDetail) =>
        /\ geoInfo = NilGeo
        /\ ~fetchingDetail
        /\ GeoFetches = 0

\* detail mode is off and both address lookups of the cycle have completed
\* with an address
C27_Witness ==
    /\ ~showDetail
    /\ NonLiteral
    /\ last.kind \in {"ipv4Msg", "ipv6Msg"}
    /\ ~last.stale
    /\ Resolved(ipv4) /\ Resolved(ipv6)

-----------------------------------------------------------------------------
(* C28 *)

\* C28: fetchingDetail is true exactly when a geolocation fetch issued in
\* the current cycle has not yet delivered its geoMsg / geoErrMsg, whichever
\* path issued it.
C28_FetchingDetailAccurate ==
    pc = "running" => (fetchingDetail <=> Count(inflight, "geo", FALSE) > 0)

-----------------------------------------------------------------------------
(* C29 *)

\* C29: whenever geoInfo is a successful result, the address it was fetched
\* for is the current value of the IPv4 slot or of the IPv6 slot.
C29_GeoBelongsToShownAddress ==
    IsSuccess(geoInfo) => geoInfo.queried \in {ipv4, ipv6}

-----------------------------------------------------------------------------
(* C30 *)

\* the messages a copy sets
CopyMessages == {"Copied IPv4!", "Copied IPv6!"}

\* the outstanding expiry ticks of 2 s, from before and after the last refresh
CopyTicks == Count(inflight, "clear", FALSE) + Count(inflight, "clear", TRUE)
                 - CopiesIn([kind |-> "clear", arg |-> "500ms", stale |-> FALSE],
                            inflight)
                 - CopiesIn([kind |-> "clear", arg |-> "500ms", stale |-> TRUE],
                            inflight)

\* the expiry tick the step delivers was scheduled before the displayed copy
\* message was set: the tick of a refresh (a refresh replaces the message, so
\* the copy came later), a tick from before the last refresh, or a tick of
\* 2 s delivered while a later one is outstanding (ticks of one duration
\* fire in the order they were scheduled)
EarlierTick ==
    /\ last'.kind = "clearMsg"
    /\ \/ last'.val = "500ms"
       \/ last'.stale
       \/ CopyTicks >= 2

\* C30: a message set by a copy stays displayed until the expiry tick of
\* that copy is delivered: the delivery of a tick scheduled earlier, by
\* another copy or by a refresh, leaves it in place.
C30_CopyMessageOutlivesEarlierTicks ==
    [][ (message \in CopyMessages /\ EarlierTick) => message' = message ]_vars

-----------------------------------------------------------------------------
(* C31 *)

\* C31: handling the key "4", the key "6" or clearMsg, in any state, leaves
\* ipv4, ipv6, geoInfo, showDetail, fetchingDetail and loading as they are
\* and issues no lookup: of the session's state only the message changes.
C31_CopyAndExpiryLeaveQueryState ==
    [][ last'.kind \in {"4", "6", "clearMsg"} =>
            /\ UNCHANGED <<ipv4, ipv6, geoInfo, showDetail, fetchingDetail,
                           loading, target>>
            /\ issued' = issued
            /\ \A c \in BagToSet(inflight') :
                   c.kind # "clear" => CopiesIn(c, inflight') = CopiesIn(c, inflight)
      ]_vars

\* an expiry tick has just been handled while lookups of the current cycle
\* are outstanding and the session is loading
C31_Witness ==
    /\ last.kind = "clearMsg"
    /\ loading
    /\ Outstanding(FALSE) > 0
    /\ Resolved(ipv4) \/ Resolved(ipv6)

-----------------------------------------------------------------------------
(* C32 *)

\* the addresses FetchResult fetches the geolocation for, given the results
\* of the two lookups
FetchResultGeoArgs(v4, v6) ==
    {detailCalls(v4, v6, TRUE)[i].arg : i \in 1..Len(detailCalls(v4, v6, TRUE))}

\* C32: detail mode on from the start and no key pressed: once both address
\* completions have been handled, the geolocation fetches the session has
\* issued are on the address FetchResult chooses for the same two results
\* (IPv4 when usable, IPv6 otherwise, none when neither is), in whichever
\* order the completions arrived.
C32_SameGeoAddressAsFetchResult ==
    (pc = "running" /\ showDetail /\ ~Pending(ipv4) /\ ~Pending(ipv6))
        => GeoFetchArgs = FetchResultGeoArgs(ipv4, ipv6)

-----------------------------------------------------------------------------
(* C33 *)

\* the address lies in one of the reserved blocks
InReserved(ip) ==
    \E i \in 1..Len(reservedBlocks) : Contains(reservedBlocks[i], ip)

\* C33: an address inside a reserved block is reported as Private when none
\* of the earlier categories matches it, and as that earlier category when
\* one does
C33_ReservedIsPrivate ==
    (output # <<>> /\ Parsed # NoIP /\ InReserved(Parsed)) =>
        output[1] = (IF FirstMatch(Parsed) = "Public" THEN "Private"
                     ELSE FirstMatch(Parsed))

\* C33: the check of the reserved blocks leaves the category of an address
\* outside them as the earlier categories decide it (Public when none of
\* them matches)
C33_OutsideUntouched ==
    (output # <<>> /\ Parsed # NoIP /\ ~InReserved(Parsed)) =>
        output[1] = FirstMatch(Parsed)

\* C33: ip.Classify reports an address inside one of the reserved blocks as
\* Private, and only when none of the earlier categories (Unspecified,
\* Loopback, Link-Local, Multicast, Private) matched; the check of the
\* reserved blocks never changes the category of an address outside them.
C33_ReservedBlocks == C33_ReservedIsPrivate /\ C33_OutsideUntouched

-----------------------------------------------------------------------------
(* C34 *)

\* the result's address: the IPv4 result when it is usable, else the IPv6 one
ResultAddress(r) == IF usable(r.IPv4) THEN r.IPv4 ELSE r.IPv6

\* C34: the result FetchResult returns carries the two lookups' results as
\* they came; Success is false, with Error set, exactly when neither of them
\* is usable; otherwise Type is the classification of the IPv4 result when it
\* is usable and of the IPv6 result when it is not; with detail requested the
\* one geolocation fetch is made on that same address and without it, or
\* without success, none is made; Detail is either absent (the fetch failed
\* or was not made) or what the fetch on that address returned, and Success,
\* IPv4 and IPv6 are the same either way.
C34_FetchResult ==
    pc \in {"result", "returned", "exit"} =>
        LET r == output[1]
        IN  /\ r.IPv4 = ipv4 /\ r.IPv6 = ipv6
            /\ r.Success <=> (usable(ipv4) \/ usable(ipv6))
            /\ r.Success <=> r.Error = ""
            /\ r.Success => r.Type = Classify(ResultAddress(r))
            /\ GeoFetchArgs = IF showDetail /\ r.Success
                              THEN {ResultAddress(r)} ELSE {}
            /\ GeoFetches <= 1
            /\ r.Detail # NilGeo =>
                  /\ showDetail /\ r.Success
                  /\ r.Detail \in {x.info : x \in {y \in FetchGeoInfo(ResultAddress(r)) :
                                                       y.err = ""}}

\* both lookups gave an address, detail was requested and the geolocation
\* fetch failed: the result is a success without Detail
C34_Witness ==
    /\ pc = "result"
    /\ showDetail
    /\ usable(ipv4) /\ usable(ipv6)
    /\ output[1].Success
    /\ output[1].Detail = NilGeo
    /\ GeoFetchArgs = {ipv4}

\* neither lookup gave an address: the result is a failure
C34_WitnessFailure ==
    /\ pc = "result"
    /\ ~usable(ipv4) /\ ~usable(ipv6)
    /\ ~output[1].Success
    /\ output[1].Error = "Could not detect IP address"

-----------------------------------------------------------------------------
(* package cli: processBatch *)

MaxLines == 3

\* bufio.MaxScanTokenSize: a line of this many bytes or more makes
\* scanner.Scan return false with the error "token too long"
MaxScanTokenSize == 65536

\* strings.HasPrefix
HasPrefix(s, pre) == occursAt(s, pre, 1)

LongLine == Repeat("a", MaxScanTokenSize)

LineTexts ==
    {"", "# comment", "8.8.8.8", " https://github.com/user/repo ",
     "has space", LongLine}

BatchFormats == {"text", "json", "yaml"}

\* the runs studied: the lines of the file or of stdin, the format, --quiet
BatchRuns ==
    [lines : UNION {[1..n -> LineTexts] : n \in 0..MaxLines},
     format : BatchFormats,
     quiet : BOOLEAN]

\* the scanner cannot return the line
tooLong(line) == Len(line) >= MaxScanTokenSize

\* the locals of processBatch: lines read, targets printed one by one,
\* targets whose results are collected, lines warned about on stderr, count
BatchState(n, printed, results, warned, count) ==
    [n |-> n, printed |-> printed, results |-> results, warned |-> warned,
     count |-> count]

InitBatch ==
    /\ pc = "scan"
    /\ target = ""
    /\ ipv4 = ""
    /\ ipv6 = ""
    /\ geoInfo = NilGeo
    /\ message = ""
    /\ loading = FALSE
    /\ showDetail = FALSE
    /\ fetchingDetail = FALSE
    /\ inflight = EmptyBag
    /\ issued = EmptyBag
    /\ last = Event("none", "", FALSE, "")
    /\ input \in BatchRuns
    /\ output = <<BatchState(0, <<>>, <<>>, <<>>, 0)>>

\* one iteration of the loop: scanner.Scan() returned a line
BatchLine ==
    /\ pc = "scan"
    /\ output[1].n < Len(input.lines)
    /\ ~tooLong(input.lines[output[1].n + 1])
    /\ LET st   == output[1]
           line == trimSpace(input.lines[st.n + 1])
           tgt  == ExtractFromURL(line)
       IN  output' =
             << IF line = "" \/ HasPrefix(line, "#")
                THEN [st EXCEPT !.n = @ + 1]
                ELSE IF ~IsValidTarget(tgt)
                THEN [st EXCEPT !.n = @ + 1,
                                !.warned = IF input.quiet THEN @
                                           ELSE Append(@, line)]
                ELSE IF input.format \in {"json", "yaml"}
                THEN [st EXCEPT !.n = @ + 1,
                                !.results = Append(@, tgt),
                                !.count = @ + 1]
                ELSE [st EXCEPT !.n = @ + 1,
                                !.printed = Append(@, tgt),
                                !.count = @ + 1] >>
    /\ UNCHANGED <<sessionVars, input>>

\* scanner.Scan() returned false, at the end of the input or at a line that
\* is too long: the error processBatch returns ("" for nil) and, for JSON
\* and YAML, the array it writes
BatchEnd ==
    /\ pc = "scan"
    /\ \/ output[1].n = Len(input.lines)
       \/ /\ output[1].n < Len(input.lines)
          /\ tooLong(input.lines[output[1].n + 1])
    /\ pc' = "exit"
    /\ \E encodeFails \in BOOLEAN :
         LET st == output[1]
         IN  output' =
               IF st.n < Len(input.lines)
               THEN <<st, [err |-> "read error: bufio.Scanner: token too long"]>>
               ELSE IF st.count = 0
               THEN <<st, [err |-> "no valid targets found"]>>
               ELSE IF input.format \in {"json", "yaml"}
               THEN IF encodeFails
                    THEN <<st, [err |-> "encode error"]>>
                    ELSE <<[st EXCEPT !.printed = st.results], [err |-> ""]>>
               ELSE <<st, [err |-> ""]>>
    /\ UNCHANGED <<target, ipv4, ipv6, geoInfo, message, loading, showDetail,
                   fetchingDetail, inflight, issued, last, input>>

NextBatch ==
    \/ BatchLine
    \/ BatchEnd

SpecBatch == InitBatch /\ [][NextBatch]_vars

-----------------------------------------------------------------------------
(* C35 *)

\* the line is neither blank nor a comment and its extracted target is valid
ValidLine(l) ==
    /\ ~tooLong(l)
    /\ trimSpace(l) # ""
    /\ ~HasPrefix(trimSpace(l), "#")
    /\ IsValidTarget(ExtractFromURL(trimSpace(l)))

\* the targets of the valid lines, in input order
RECURSIVE ValidTargets(_)
ValidTargets(lines) ==
    IF lines = <<>> THEN <<>>
    ELSE (IF ValidLine(Head(lines))
          THEN <<ExtractFromURL(trimSpace(Head(lines)))>> ELSE <<>>)
             \o ValidTargets(Tail(lines))

\* C35: when processBatch returns, whatever the lines were: the targets it
\* has processed are those of the valid lines (not blank, not starting with
\* '#', extracted target accepted by ip.IsValidTarget), each once and in
\* input order, lines after an invalid one included; and it returns the error
\* "no valid targets found" exactly when no line was valid.
C35_BatchProcessesEveryValidLine ==
    pc = "exit" =>
        /\ output[1].printed \o (IF output[2].err = "" THEN <<>>
                                 ELSE output[1].results)
              = ValidTargets(input.lines)
        /\ output[1].count = Len(ValidTargets(input.lines))
        /\ output[2].err = "no valid targets found"
              <=> ValidTargets(input.lines) = <<>>

====
